---- MODULE Spec2Model ----
(***************************************************************************)
(* A model of the openweather request builders (openweather-uv,            *)
(* openweather-air, openweather-weather): the request objects and their    *)
(* chainable accessors, url(), exec() over the got transport, and the      *)
(* per-module default API key.                                             *)
(***************************************************************************)
EXTENDS Integers, Sequences, FiniteSets, TLC

VARIABLES
  APPID,   \* the module-level `let APPID` of each module
  reqs,    \* the request objects constructed so far, in construction order
  calls,   \* the GETs in flight, each with the chain exec() hung on it
  ret      \* what the last operation did: its name, receiver, arguments, outcome

vars == <<APPID, reqs, calls, ret>>

----------------------------------------------------------------------------
(* Bounds of the model.                                                    *)

MaxReqs == 2     \* request objects alive in one behaviour
MaxCalls == 2    \* GETs in flight at one time

----------------------------------------------------------------------------
(* JavaScript values.                                                      *)

Undef == [t |-> "undefined"]
Null == [t |-> "null"]
Str(s) == [t |-> "string", s |-> s]
Num(n) == [t |-> "number", n |-> n]
Sym(m, d) == [t |-> "symbol", mod |-> m, desc |-> d]
DateV(iso) == [t |-> "date", iso |-> iso]
Obj(p) == [t |-> "object", props |-> p]
Ref(r) == [t |-> "request", r |-> r]
Err(c, m) == [t |-> "error", class |-> c, msg |-> m]

\* Boolean coercion: the falsy values are undefined, null, '' and 0.
Truthy(v) ==
  CASE v.t = "undefined" -> FALSE
    [] v.t = "null" -> FALSE
    [] v.t = "string" -> v.s # ""
    [] v.t = "number" -> v.n # 0
    [] OTHER -> TRUE

\* a || b
Or(a, b) == IF Truthy(a) THEN a ELSE b

\* String coercion of a primitive, as a template literal and
\* URLSearchParams.append apply it.
JSString(v) ==
  CASE v.t = "undefined" -> "undefined"
    [] v.t = "null" -> "null"
    [] v.t = "string" -> v.s
    [] v.t = "number" -> ToString(v.n)
    [] v.t = "date" -> v.iso
    [] OTHER -> "[object Object]"

\* config.key: the property of an object, undefined when it has none.
Get(o, k) == IF k \in DOMAIN o.props THEN o.props[k] ELSE Undef

\* Outcome of a synchronous call: it returns a value or throws one.
Return(v) == [thrown |-> FALSE, val |-> v]
Throw(e) == [thrown |-> TRUE, val |-> e]

\* arguments[i - 1]: undefined past arguments.length.
Arg(args, i) == IF i <= Len(args) THEN args[i] ELSE Undef

\* `return this` of a chainable method, before the receiver is known.
This == [t |-> "this"]

\* A method call leaves the receiver as `self` and returns `out`.
Result(self, out) == [self |-> self, out |-> out]

\* The query string of a URL as url.parse(href, true) reads it: the ordered
\* list of key/value pairs.
HasKey(q, k) == \E i \in 1..Len(q) : q[i][1] = k
Count(q, k) == Cardinality({i \in 1..Len(q) : q[i][1] = k})
QuerySet(q) == {q[i] : i \in 1..Len(q)}
ValueOf(q, k) == q[CHOOSE i \in 1..Len(q) : q[i][1] = k][2]

HOST == "api.openweathermap.org"

\* new url.URL(input): throws TypeError unless input is an absolute URL.
NewURL(input) ==
  IF input.t = "string"
    THEN Return([host |-> HOST, path |-> input.s, query |-> <<>>])
    ELSE Throw(Err("TypeError", "Invalid URL"))

----------------------------------------------------------------------------
(* openweather-base                                                        *)

InvalidRequestType(msg) == Err("InvalidRequestType", msg)

----------------------------------------------------------------------------
(* openweather-uv                                                          *)

UVRequestType ==
  [CURRENT |-> Sym("uv", "current"),
   HISTORY |-> Sym("uv", "history"),
   FORECAST |-> Sym("uv", "forecast")]

UVTypes == {UVRequestType.CURRENT, UVRequestType.HISTORY, UVRequestType.FORECAST}

\* `throw InvalidRequestType(...)` calls the class without `new`, which
\* itself raises a TypeError before anything is thrown by the switch.
UVRequestType_getName(type) ==
  CASE type = UVRequestType.CURRENT -> Return(Str("current"))
    [] type = UVRequestType.HISTORY -> Return(Str("history"))
    [] type = UVRequestType.FORECAST -> Return(Str("forecast"))
    [] OTHER -> Throw(Err("TypeError", "Class constructor cannot be invoked without 'new'"))

\* BaseUrl[type]: the path of the endpoint; host and scheme are `base`.
UVBaseUrl(type) ==
  CASE type = UVRequestType.CURRENT -> Str("/data/2.5/uvi")
    [] type = UVRequestType.HISTORY -> Str("/data/2.5/uvi/history")
    [] type = UVRequestType.FORECAST -> Str("/data/2.5/uvi/forecast")
    [] OTHER -> Undef

\* The constructor taking the key from the config alone.
UVRequest_constructor_own(config, defKey) ==
  LET c == IF config.t # "object" THEN Obj(<<>>) ELSE config IN
  [family |-> "uv",
   appid_ |-> Get(c, "appid"),
   type_ |-> Get(c, "type"),
   lat_ |-> Get(c, "lat"),
   lon_ |-> Get(c, "lon"),
   cnt_ |-> Get(c, "cnt"),
   count_ |-> Undef,
   start_ |-> Get(c, "start"),
   end_ |-> Get(c, "end")]

UVRequest_constructor(config, defKey) ==
  LET c == IF config.t # "object" THEN Obj(<<>>) ELSE config IN
  [family |-> "uv",
   appid_ |-> Or(Get(c, "appid"), defKey),
   type_ |-> Get(c, "type"),
   lat_ |-> Get(c, "lat"),
   lon_ |-> Get(c, "lon"),
   cnt_ |-> Get(c, "cnt"),
   count_ |-> Undef,
   start_ |-> Get(c, "start"),
   end_ |-> Get(c, "end")]

\* url() sending the day count to the history endpoint as well.
UVRequest_url_cnt(this) ==
  LET requestUrl == NewURL(UVBaseUrl(this.type_))
      common == <<<<"APPID", JSString(this.appid_)>>,
                  <<"lat", JSString(this.lat_)>>,
                  <<"lon", JSString(this.lon_)>>>>
      forecast == IF this.type_ \in {UVRequestType.FORECAST, UVRequestType.HISTORY}
                    THEN <<<<"cnt", JSString(this.cnt_)>>>>
                    ELSE <<>>
      history == IF this.type_ = UVRequestType.HISTORY
                   THEN <<<<"start", JSString(this.start_)>>,
                          <<"end", JSString(this.end_)>>>>
                   ELSE <<>>
  IN IF requestUrl.thrown
       THEN requestUrl
       ELSE Return([requestUrl.val EXCEPT !.query = common \o forecast \o history])

UVRequest_url(this) ==
  LET requestUrl == NewURL(UVBaseUrl(this.type_))
      common == <<<<"APPID", JSString(this.appid_)>>,
                  <<"lat", JSString(this.lat_)>>,
                  <<"lon", JSString(this.lon_)>>>>
      forecast == IF this.type_ = UVRequestType.FORECAST
                    THEN <<<<"cnt", JSString(this.cnt_)>>>>
                    ELSE <<>>
      history == IF this.type_ = UVRequestType.HISTORY
                   THEN <<<<"start", JSString(this.start_)>>,
                          <<"end", JSString(this.end_)>>>>
                   ELSE <<>>
  IN IF requestUrl.thrown
       THEN requestUrl
       ELSE Return([requestUrl.val EXCEPT !.query = common \o forecast \o history])

----------------------------------------------------------------------------
(* openweather-weather                                                     *)

TemperatureUnit ==
  [METRIC |-> Sym("weather", "metric"),
   STANDARD |-> Sym("weather", "standard"),
   IMPERIAL |-> Sym("weather", "imperial")]

TemperatureUnits ==
  {TemperatureUnit.METRIC, TemperatureUnit.STANDARD, TemperatureUnit.IMPERIAL}

\* getName taking any other value for the standard unit.
TemperatureUnit_getName_lenient(unit) ==
  CASE unit = TemperatureUnit.METRIC -> Return(Str("metric"))
    [] unit = TemperatureUnit.IMPERIAL -> Return(Str("imperial"))
    [] OTHER -> Return(Str("standard"))

TemperatureUnit_getName(unit) ==
  CASE unit = TemperatureUnit.METRIC -> Return(Str("metric"))
    [] unit = TemperatureUnit.STANDARD -> Return(Str("standard"))
    [] unit = TemperatureUnit.IMPERIAL -> Return(Str("imperial"))
    [] OTHER -> Throw(InvalidRequestType("Unknown TemperatureUnit"))

WeatherRequestType ==
  [CURRENT |-> Sym("weather", "current"),
   FORECAST_5 |-> Sym("weather", "forecastDay"),
   FORECAST_16 |-> Sym("weather", "forecastHour")]

WeatherTypes ==
  {WeatherRequestType.CURRENT, WeatherRequestType.FORECAST_5,
   WeatherRequestType.FORECAST_16}

WeatherRequestType_getName(type) ==
  CASE type = WeatherRequestType.CURRENT -> Return(Str("current"))
    [] type = WeatherRequestType.FORECAST_5 -> Return(Str("forecast5"))
    [] type = WeatherRequestType.FORECAST_16 -> Return(Str("forecast16"))
    [] OTHER -> Throw(InvalidRequestType("Unknown WeatherRequestType"))

\* The table with the 16 day forecast filed under the 5 day path.
WeatherBaseUrl_daily(type) ==
  CASE type = WeatherRequestType.CURRENT -> Str("/data/2.5/" \o "weather")
    [] type = WeatherRequestType.FORECAST_5 -> Str("/data/2.5/" \o "forecast")
    [] type = WeatherRequestType.FORECAST_16 -> Str("/data/2.5/" \o "forecast")
    [] OTHER -> Undef

WeatherBaseUrl(type) ==
  CASE type = WeatherRequestType.CURRENT -> Str("/data/2.5/" \o "weather")
    [] type = WeatherRequestType.FORECAST_5 -> Str("/data/2.5/" \o "forecast")
    [] type = WeatherRequestType.FORECAST_16 -> Str("/data/2.5/" \o "forecast/daily")
    [] OTHER -> Undef

WeatherRequest_constructor(config, defKey) ==
  LET c == IF config.t # "object" THEN Obj(<<>>) ELSE config IN
  [family |-> "weather",
   appid_ |-> Or(Get(c, "appid"), defKey),
   type_ |-> Get(c, "type"),
   id_ |-> Get(c, "id"),
   zip_ |-> Get(c, "zip"),
   city_ |-> Get(c, "city"),
   country_ |-> Get(c, "country"),
   lat_ |-> Get(c, "lat"),
   lon_ |-> Get(c, "lon"),
   limit_ |-> Get(c, "limit"),
   units_ |-> Get(c, "units"),
   language_ |-> Get(c, "language")]

\* The optional parameters with one location only: the city id, else the
\* zip code, else the coordinates, else the city.
WeatherOptional_single(this, unitName) ==
     (IF Truthy(this.id_) THEN <<<<"id", JSString(this.id_)>>>>
      ELSE IF Truthy(this.zip_)
        THEN <<<<"zip", JSString(this.zip_) \o "," \o JSString(this.country_)>>>>
      ELSE IF Truthy(this.lat_) /\ Truthy(this.lon_)
        THEN <<<<"lat", JSString(this.lat_)>>, <<"lon", JSString(this.lon_)>>>>
      ELSE IF Truthy(this.city_)
        THEN <<<<"q", JSString(this.city_) \o
                       (IF Truthy(this.country_)
                          THEN "," \o JSString(this.country_)
                          ELSE "")>>>>
      ELSE <<>>)
  \o (IF Truthy(this.limit_) THEN <<<<"cnt", JSString(this.limit_)>>>> ELSE <<>>)
  \o (IF Truthy(this.language_) THEN <<<<"lang", JSString(this.language_)>>>> ELSE <<>>)
  \o (IF Truthy(this.units_) THEN <<<<"units", unitName>>>> ELSE <<>>)

\* The optional parameters, in the order url() appends them.
WeatherOptional(this, unitName) ==
     (IF Truthy(this.id_) THEN <<<<"id", JSString(this.id_)>>>> ELSE <<>>)
  \o (IF Truthy(this.zip_)
        THEN <<<<"zip", JSString(this.zip_) \o "," \o JSString(this.country_)>>>>
        ELSE <<>>)
  \o (IF Truthy(this.limit_) THEN <<<<"cnt", JSString(this.limit_)>>>> ELSE <<>>)
  \o (IF Truthy(this.language_) THEN <<<<"lang", JSString(this.language_)>>>> ELSE <<>>)
  \o (IF Truthy(this.units_) THEN <<<<"units", unitName>>>> ELSE <<>>)
  \o (IF Truthy(this.lat_) /\ Truthy(this.lon_)
        THEN <<<<"lat", JSString(this.lat_)>>, <<"lon", JSString(this.lon_)>>>>
        ELSE <<>>)
  \o (IF Truthy(this.city_)
        THEN <<<<"q", JSString(this.city_) \o
                       (IF Truthy(this.country_)
                          THEN "," \o JSString(this.country_)
                          ELSE "")>>>>
        ELSE <<>>)

\* url() leaving out the key of a request that holds none.
WeatherRequest_url_keyless(this) ==
  LET requestUrl == NewURL(WeatherBaseUrl(this.type_))
      unit == IF Truthy(this.units_)
                THEN TemperatureUnit_getName(this.units_)
                ELSE Return(Str(""))
      necessary == <<<<"mode", "json">>>> \o
                   (IF Truthy(this.appid_)
                      THEN <<<<"APPID", JSString(this.appid_)>>>> ELSE <<>>)
  IN IF requestUrl.thrown THEN requestUrl
     ELSE IF unit.thrown THEN unit
     ELSE Return([requestUrl.val EXCEPT
                    !.query = necessary \o WeatherOptional(this, unit.val.s)])

WeatherRequest_url(this) ==
  LET requestUrl == NewURL(WeatherBaseUrl(this.type_))
      unit == IF Truthy(this.units_)
                THEN TemperatureUnit_getName(this.units_)
                ELSE Return(Str(""))
      necessary == <<<<"mode", "json">>, <<"APPID", JSString(this.appid_)>>>>
  IN IF requestUrl.thrown THEN requestUrl
     ELSE IF unit.thrown THEN unit
     ELSE Return([requestUrl.val EXCEPT
                    !.query = necessary \o WeatherOptional(this, unit.val.s)])

----------------------------------------------------------------------------
(* openweather-air                                                         *)

AirRequestType ==
  [O3 |-> Sym("air", "o3"),
   CO |-> Sym("air", "co"),
   SO2 |-> Sym("air", "so2"),
   NO2 |-> Sym("air", "no2")]

AirTypes == {AirRequestType.O3, AirRequestType.CO, AirRequestType.SO2,
             AirRequestType.NO2}

AirRequestType_getName(type) ==
  CASE type = AirRequestType.O3 -> Return(Str("ozone"))
    [] type = AirRequestType.CO -> Return(Str("carbon-monoxide"))
    [] type = AirRequestType.SO2 -> Return(Str("sulfur-dioxide"))
    [] type = AirRequestType.NO2 -> Return(Str("nitrogen-dioxide"))
    [] OTHER -> Throw(InvalidRequestType("Unknown AirRequestType"))

AirBase == "/pollution/v1/"

\* BaseUrl[type]. The table is filled under the keys CO, O3, NO2 and
\* AirRequestType.CO2; the enum has no CO2, so that entry sits under the
\* property key 'undefined', and SO2 has no entry. A key that is not a
\* symbol is looked up by its string form.
AirBaseUrl(type) ==
  CASE type = AirRequestType.CO -> Str(AirBase \o "co")
    [] type = AirRequestType.O3 -> Str(AirBase \o "o3")
    [] type = AirRequestType.NO2 -> Str(AirBase \o "no2")
    [] type.t # "symbol" /\ JSString(type) = "undefined" -> Str(AirBase \o "so2")
    [] OTHER -> Undef

AirRequest_constructor(config, defKey, now) ==
  LET c == IF config.t # "object" THEN Obj(<<>>) ELSE config IN
  [family |-> "air",
   appid_ |-> Or(Get(c, "appid"), defKey),
   type_ |-> Get(c, "type"),
   lat_ |-> Get(c, "lat"),
   lon_ |-> Get(c, "lon"),
   datetime_ |-> Or(Get(c, "datetime"), now),
   time_ |-> Undef]

\* this.datetime_.toISOString(): only a Date has the method.
ToISOString(v) ==
  IF v.t = "date"
    THEN Return(Str(v.iso))
    ELSE Throw(Err("TypeError", "toISOString is not a function"))

\* url() concatenates BaseUrl[type] with the template and returns
\* encodeURI of it; the result is given as url.parse reads it. Without a
\* table entry the string starts with 'undefined' and has no host.
AirRequest_url(this) ==
  LET timeStr == ToISOString(this.datetime_)
      b == AirBaseUrl(this.type_)
      input == "/" \o JSString(this.lat_) \o "," \o JSString(this.lon_) \o "/"
  IN IF timeStr.thrown THEN timeStr
     ELSE Return([host |-> IF b.t = "string" THEN HOST ELSE "",
                  path |-> JSString(b) \o input \o timeStr.val.s \o ".json",
                  query |-> <<<<"appid", JSString(this.appid_)>>>>])

----------------------------------------------------------------------------
(* The accessors: each is a getter without arguments, a chainable setter   *)
(* with arguments.                                                         *)

UVRequest_appid(this, args) ==
  IF Len(args) = 0 THEN Result(this, this.appid_)
  ELSE Result([this EXCEPT !.appid_ = Arg(args, 1)], This)

UVRequest_type(this, args) ==
  IF Len(args) = 0 THEN Result(this, this.type_)
  ELSE Result([this EXCEPT !.type_ = Arg(args, 1)], This)

UVRequest_coords(this, args) ==
  IF Len(args) = 0 THEN Result(this, Obj([lat |-> this.lat_, lon |-> this.lon_]))
  ELSE Result([this EXCEPT !.lat_ = Arg(args, 1), !.lon_ = Arg(args, 2)], This)

\* limit() reading the field url() reads.
UVRequest_limit_cnt(this, args) ==
  IF Len(args) = 0 THEN Result(this, this.cnt_)
  ELSE Result([this EXCEPT !.count_ = Arg(args, 1)], This)

\* limit() keeps its value in count_, a field url() does not read.
UVRequest_limit(this, args) ==
  IF Len(args) = 0 THEN Result(this, this.count_)
  ELSE Result([this EXCEPT !.count_ = Arg(args, 1)], This)

UVRequest_timePeriod(this, args) ==
  IF Len(args) = 0 THEN Result(this, Obj([start |-> this.start_, end |-> this.end_]))
  ELSE Result([this EXCEPT !.start_ = Arg(args, 1), !.end_ = Arg(args, 2)], This)

WeatherRequest_appid(this, args) ==
  IF Len(args) = 0 THEN Result(this, this.appid_)
  ELSE Result([this EXCEPT !.appid_ = Arg(args, 1)], This)

WeatherRequest_type(this, args) ==
  IF Len(args) = 0 THEN Result(this, this.type_)
  ELSE Result([this EXCEPT !.type_ = Arg(args, 1)], This)

WeatherRequest_id(this, args) ==
  IF Len(args) = 0 THEN Result(this, this.id_)
  ELSE Result([this EXCEPT !.id_ = Arg(args, 1)], This)

WeatherRequest_coords(this, args) ==
  IF Len(args) = 0 THEN Result(this, Obj([lat |-> this.lat_, lon |-> this.lon_]))
  ELSE Result([this EXCEPT !.lat_ = Arg(args, 1), !.lon_ = Arg(args, 2)], This)

WeatherRequest_city(this, args) ==
  IF Len(args) = 0
    THEN Result(this, Obj([city |-> this.city_, country |-> this.country_]))
    ELSE Result([this EXCEPT !.city_ = Arg(args, 1), !.country_ = Arg(args, 2)], This)

\* zip() keeping the zip code and no country code.
WeatherRequest_zip_code(this, args) ==
  IF Len(args) = 0
    THEN Result(this, Obj([zip |-> this.zip_, country |-> this.country_]))
    ELSE Result([this EXCEPT !.zip_ = Arg(args, 1)], This)

\* zip() taking the place of the city.
WeatherRequest_zip_only(this, args) ==
  IF Len(args) = 0
    THEN Result(this, Obj([zip |-> this.zip_, country |-> this.country_]))
    ELSE Result([this EXCEPT !.zip_ = Arg(args, 1), !.city_ = Undef,
                             !.country_ = Or(Arg(args, 2), this.country_)], This)

WeatherRequest_zip(this, args) ==
  IF Len(args) = 0
    THEN Result(this, Obj([zip |-> this.zip_, country |-> this.country_]))
    ELSE Result([this EXCEPT !.zip_ = Arg(args, 1),
                             !.country_ = Or(Arg(args, 2), this.country_)], This)

WeatherRequest_limit(this, args) ==
  IF Len(args) = 0 THEN Result(this, this.limit_)
  ELSE Result([this EXCEPT !.limit_ = Arg(args, 1)], This)

WeatherRequest_units(this, args) ==
  IF Len(args) = 0 THEN Result(this, this.units_)
  ELSE Result([this EXCEPT !.units_ = Arg(args, 1)], This)

WeatherRequest_language(this, args) ==
  IF Len(args) = 0 THEN Result(this, this.language_)
  ELSE Result([this EXCEPT !.language_ = Arg(args, 1)], This)

AirRequest_appid(this, args) ==
  IF Len(args) = 0 THEN Result(this, this.appid_)
  ELSE Result([this EXCEPT !.appid_ = Arg(args, 1)], This)

AirRequest_type(this, args) ==
  IF Len(args) = 0 THEN Result(this, this.type_)
  ELSE Result([this EXCEPT !.type_ = Arg(args, 1)], This)

AirRequest_coords(this, args) ==
  IF Len(args) = 0 THEN Result(this, Obj([lat |-> this.lat_, lon |-> this.lon_]))
  ELSE Result([this EXCEPT !.lat_ = Arg(args, 1), !.lon_ = Arg(args, 2)], This)

\* The getter reads time_, which nothing assigns.
AirRequest_datetime(this, args) ==
  IF Len(args) = 0 THEN Result(this, this.time_)
  ELSE Result([this EXCEPT !.datetime_ = Arg(args, 1)], This)

\* defaultKey returning its argument without keeping it.
defaultKey_echo(appid, args) ==
  [APPID |-> appid, out |-> IF Len(args) # 0 THEN Arg(args, 1) ELSE appid]

\* defaultKey of a family module, on that module's APPID: the new APPID
\* and the value returned.
defaultKey(appid, args) ==
  LET new == IF Len(args) # 0 THEN Arg(args, 1) ELSE appid
  IN [APPID |-> new, out |-> new]

----------------------------------------------------------------------------
(* openweather, the wrapper module                                         *)

\* The bindings the module declares before its exports are evaluated.
openweather_declared == {"uv", "air", "weather", "APPID", "defaultKey"}

\* The identifiers the object literal assigned to module.exports reads.
openweather_exports ==
  {"defaultKey", "uv", "UVRequest", "UVRequestType", "weather", "air"}

\* require('openweather'): the module body runs to the end, or throws at
\* the first identifier that is bound nowhere.
openweather_require ==
  IF openweather_exports \subseteq openweather_declared
    THEN Return(Obj([defaultKey |-> [t |-> "function", kind |-> "defaultKey"]]))
    ELSE Throw(Err("ReferenceError", "UVRequest is not defined"))

\* defaultKey of the wrapper, on the APPID of every module: with an
\* argument it keeps the key and hands it to uv, air and weather.
openweather_defaultKey(appids, args) ==
  IF Len(args) # 0
    THEN [APPID |-> [m \in DOMAIN appids |->
                       IF m = "openweather" THEN Arg(args, 1)
                       ELSE defaultKey(appids[m], <<Arg(args, 1)>>).APPID],
          out |-> Arg(args, 1)]
    ELSE [APPID |-> appids, out |-> appids["openweather"]]

----------------------------------------------------------------------------
(* exec(): the transport and the promise chain.                            *)

Fn(k) == [t |-> "function", kind |-> k]

\* Calling a function value. 'noop' is `() => {}`, 'comma' is
\* `(val, err) => { return (val, err); }`; the others are callbacks of the
\* caller, written error-first: 'returns' handles either outcome, 'throws'
\* throws while it handles a call that reports no error.
Apply(fn, args) ==
  CASE fn.kind = "noop" -> Return(Undef)
    [] fn.kind = "comma" -> Return(Arg(args, 2))
    [] fn.kind = "returns" -> Return(Undef)
    [] fn.kind = "throws" ->
         IF Truthy(Arg(args, 1)) THEN Return(Undef)
         ELSE Throw(Err("Error", "callback failed"))

\* The text of a JSON value on the wire.
JSONStringify(x) == "{\"status\":\"" \o x.props.status.s \o "\"}"

\* got(url[, {json: true}]) once the transport has answered: the promise
\* is fulfilled with the response, whose body is parsed only under the
\* json option, or rejected with the transport's error.
Got(json, answer) ==
  CASE answer.kind = "ok" ->
         Return([body |-> IF json THEN answer.body
                          ELSE Str(JSONStringify(answer.body))])
    [] answer.kind = "badjson" ->
         IF json THEN Throw(Err("ParseError", "Unexpected token"))
         ELSE Return([body |-> Str("<html>")])
    [] answer.kind = "http" -> Throw(Err("HTTPError", "Response code 404"))
    [] answer.kind = "network" -> Throw(Err("RequestError", "ECONNREFUSED"))

\* A settled promise is Return(v) when fulfilled with v, Throw(e) when
\* rejected with e. A link of the chain: the calls made to the callback so
\* far, and the promise the link returns.
Link(inv, p) == [inv |-> inv, p |-> p]

\* UVRequest.exec sending the GET to the endpoint without its parameters.
UVRequest_exec_bare(this, callback) ==
  LET url == UVRequest_url(this)
  IN IF url.thrown THEN url
     ELSE Return([url |-> [url.val EXCEPT !.query = <<>>], json |-> FALSE,
                  callback |-> Or(callback, Fn("noop"))])

\* The synchronous part of exec(): the GET to issue, or what url() threw.
UVRequest_exec(this, callback) ==
  LET url == UVRequest_url(this)
  IN IF url.thrown THEN url
     ELSE Return([url |-> url.val, json |-> FALSE,
                  callback |-> Or(callback, Fn("noop"))])

\* .then(res => res.body).then(res => callback(null, res))
\* .catch(err => callback(err))
UVRequest_exec_chain(callback, res) ==
  LET body == IF res.thrown THEN res ELSE Return(res.val.body)
      then == IF body.thrown THEN Link(<<>>, body)
              ELSE Link(<<<<Null, body.val>>>>, Apply(callback, <<Null, body.val>>))
  IN IF then.p.thrown
       THEN Link(Append(then.inv, <<then.p.val>>), Apply(callback, <<then.p.val>>))
       ELSE then

WeatherRequest_exec(this, callback) ==
  LET url == WeatherRequest_url(this)
  IN IF url.thrown THEN url
     ELSE Return([url |-> url.val, json |-> TRUE,
                  callback |-> Or(callback, Fn("comma"))])

\* .then(res => res.body).then(res => callback(res))
\* .catch(err => { return callback(null, err) })
WeatherRequest_exec_chain(callback, res) ==
  LET body == IF res.thrown THEN res ELSE Return(res.val.body)
      then == IF body.thrown THEN Link(<<>>, body)
              ELSE Link(<<<<body.val>>>>, Apply(callback, <<body.val>>))
  IN IF then.p.thrown
       THEN Link(Append(then.inv, <<Null, then.p.val>>),
                 Apply(callback, <<Null, then.p.val>>))
       ELSE then

\* The cache hook stores nothing and hands the response on.
addToCache(response) == response

AirRequest_exec(this, callback) ==
  LET url == AirRequest_url(this)
  IN IF url.thrown THEN url
     ELSE Return([url |-> url.val, json |-> FALSE,
                  callback |-> Or(callback, Fn("noop"))])

\* .then(addToCache).then(res => res.body).then(res => callback(null, res))
\* .catch(err => callback(err))
AirRequest_exec_chain(callback, res) ==
  LET cached == IF res.thrown THEN res ELSE Return(addToCache(res.val))
      body == IF cached.thrown THEN cached ELSE Return(cached.val.body)
      then == IF body.thrown THEN Link(<<>>, body)
              ELSE Link(<<<<Null, body.val>>>>, Apply(callback, <<Null, body.val>>))
  IN IF then.p.thrown
       THEN Link(Append(then.inv, <<then.p.val>>), Apply(callback, <<then.p.val>>))
       ELSE then

----------------------------------------------------------------------------
(* The factory functions: new Request().type(T).                           *)

uv_current(defKey) ==
  UVRequest_type(UVRequest_constructor(Undef, defKey), <<UVRequestType.CURRENT>>).self

uv_history(defKey) ==
  UVRequest_type(UVRequest_constructor(Undef, defKey), <<UVRequestType.HISTORY>>).self

uv_forecast(defKey) ==
  UVRequest_type(UVRequest_constructor(Undef, defKey), <<UVRequestType.FORECAST>>).self

weather_current(defKey) ==
  WeatherRequest_type(WeatherRequest_constructor(Undef, defKey),
                      <<WeatherRequestType.CURRENT>>).self

weather_forecast5(defKey) ==
  WeatherRequest_type(WeatherRequest_constructor(Undef, defKey),
                      <<WeatherRequestType.FORECAST_5>>).self

weather_forecast16(defKey) ==
  WeatherRequest_type(WeatherRequest_constructor(Undef, defKey),
                      <<WeatherRequestType.FORECAST_16>>).self

air_ozone(defKey, now) ==
  AirRequest_type(AirRequest_constructor(Undef, defKey, now), <<AirRequestType.O3>>).self

air_carbonMonoxide(defKey, now) ==
  AirRequest_type(AirRequest_constructor(Undef, defKey, now), <<AirRequestType.CO>>).self

air_sulfurDioxide(defKey, now) ==
  AirRequest_type(AirRequest_constructor(Undef, defKey, now), <<AirRequestType.SO2>>).self

air_nitrogenDioxide(defKey, now) ==
  AirRequest_type(AirRequest_constructor(Undef, defKey, now), <<AirRequestType.NO2>>).self

----------------------------------------------------------------------------
(* The state machine.                                                      *)

Families == {"uv", "air", "weather"}

\* The family modules and the wrapper module openweather.
Modules == Families \cup {"openweather"}

\* The record of an operation: ret after it.
Op(op, r, args, out) == [op |-> op, req |-> r, args |-> args, out |-> out]

\* No module has a default key and no request exists.
Init ==
  /\ APPID = [m \in Modules |-> Undef]
  /\ reqs = <<>>
  /\ calls = <<>>
  /\ ret = Op("load", 0, <<>>, Return(Undef))

\* A constructor or factory call returns the new object `this`.
Create(op, args, this) ==
  /\ Len(reqs) < MaxReqs
  /\ reqs' = Append(reqs, this)
  /\ ret' = Op(op, Len(reqs) + 1, args, Return(Ref(Len(reqs) + 1)))
  /\ UNCHANGED <<APPID, calls>>

NewUVRequest(config) ==
  Create("new UVRequest", <<config>>, UVRequest_constructor(config, APPID["uv"]))

NewWeatherRequest(config) ==
  Create("new WeatherRequest", <<config>>,
         WeatherRequest_constructor(config, APPID["weather"]))

NewAirRequest(config, now) ==
  Create("new AirRequest", <<config>>,
         AirRequest_constructor(config, APPID["air"], now))

UVCurrent == Create("uv.current", <<>>, uv_current(APPID["uv"]))
UVHistory == Create("uv.history", <<>>, uv_history(APPID["uv"]))
UVForecast == Create("uv.forecast", <<>>, uv_forecast(APPID["uv"]))
WeatherCurrent == Create("weather.current", <<>>, weather_current(APPID["weather"]))
WeatherForecast5 ==
  Create("weather.forecast5", <<>>, weather_forecast5(APPID["weather"]))
WeatherForecast16 ==
  Create("weather.forecast16", <<>>, weather_forecast16(APPID["weather"]))
AirOzone(now) == Create("air.ozone", <<>>, air_ozone(APPID["air"], now))
AirCarbonMonoxide(now) ==
  Create("air.carbonMonoxide", <<>>, air_carbonMonoxide(APPID["air"], now))
AirSulfurDioxide(now) ==
  Create("air.sulfurDioxide", <<>>, air_sulfurDioxide(APPID["air"], now))
AirNitrogenDioxide(now) ==
  Create("air.nitrogenDioxide", <<>>, air_nitrogenDioxide(APPID["air"], now))

\* request r of family fam runs the accessor op with args; res is what the
\* accessor makes of the receiver.
Method(fam, op, r, args, res) ==
  /\ r \in DOMAIN reqs
  /\ reqs[r].family = fam
  /\ reqs' = [reqs EXCEPT ![r] = res.self]
  /\ ret' = Op(op, r, args, Return(IF res.out = This THEN Ref(r) ELSE res.out))
  /\ UNCHANGED <<APPID, calls>>

UVAppid(r, args) == Method("uv", "appid", r, args, UVRequest_appid(reqs[r], args))
UVType(r, args) == Method("uv", "type", r, args, UVRequest_type(reqs[r], args))
UVCoords(r, args) == Method("uv", "coords", r, args, UVRequest_coords(reqs[r], args))
UVLimit(r, args) == Method("uv", "limit", r, args, UVRequest_limit(reqs[r], args))
UVTimePeriod(r, args) ==
  Method("uv", "timePeriod", r, args, UVRequest_timePeriod(reqs[r], args))

WeatherAppid(r, args) ==
  Method("weather", "appid", r, args, WeatherRequest_appid(reqs[r], args))
WeatherType(r, args) ==
  Method("weather", "type", r, args, WeatherRequest_type(reqs[r], args))
WeatherId(r, args) ==
  Method("weather", "id", r, args, WeatherRequest_id(reqs[r], args))
WeatherCoords(r, args) ==
  Method("weather", "coords", r, args, WeatherRequest_coords(reqs[r], args))
WeatherCity(r, args) ==
  Method("weather", "city", r, args, WeatherRequest_city(reqs[r], args))
WeatherZip(r, args) ==
  Method("weather", "zip", r, args, WeatherRequest_zip(reqs[r], args))
WeatherLimit(r, args) ==
  Method("weather", "limit", r, args, WeatherRequest_limit(reqs[r], args))
WeatherUnits(r, args) ==
  Method("weather", "units", r, args, WeatherRequest_units(reqs[r], args))
WeatherLanguage(r, args) ==
  Method("weather", "language", r, args, WeatherRequest_language(reqs[r], args))

AirAppid(r, args) == Method("air", "appid", r, args, AirRequest_appid(reqs[r], args))
AirType(r, args) == Method("air", "type", r, args, AirRequest_type(reqs[r], args))
AirCoords(r, args) == Method("air", "coords", r, args, AirRequest_coords(reqs[r], args))
AirDatetime(r, args) ==
  Method("air", "datetime", r, args, AirRequest_datetime(reqs[r], args))

\* url() of request r: it reads the request and returns or throws.
\* url() dropping the key of the request once it is written out.
Url_consuming(fam, r, out) ==
  /\ r \in DOMAIN reqs
  /\ reqs[r].family = fam
  /\ ret' = Op("url", r, <<>>, out)
  /\ reqs' = [reqs EXCEPT ![r].appid_ = Undef]
  /\ UNCHANGED <<APPID, calls>>

Url(fam, r, out) ==
  /\ r \in DOMAIN reqs
  /\ reqs[r].family = fam
  /\ ret' = Op("url", r, <<>>, out)
  /\ UNCHANGED <<APPID, reqs, calls>>

UVUrl(r) == Url("uv", r, UVRequest_url(reqs[r]))
WeatherUrl(r) == Url("weather", r, WeatherRequest_url(reqs[r]))
AirUrl(r) == Url("air", r, AirRequest_url(reqs[r]))

Promise(r) == [t |-> "promise", req |-> r]

\* exec(callback) of request r; callback is Undef when none is passed.
\* When url() throws, exec() throws and nothing is issued. Otherwise the
\* GET goes out and exec() returns the promise of the pending chain.
Exec(fam, r, callback, sync) ==
  /\ r \in DOMAIN reqs
  /\ reqs[r].family = fam
  /\ IF sync.thrown
       THEN /\ calls' = calls
            /\ ret' = Op("exec", r, <<callback>>, sync)
       ELSE /\ Len(calls) < MaxCalls
            /\ calls' = Append(calls,
                 [req |-> r, family |-> fam, url |-> sync.val.url,
                  json |-> sync.val.json, passed |-> callback,
                  callback |-> sync.val.callback])
            /\ ret' = Op("exec", r, <<callback>>, Return(Promise(r)))
  /\ UNCHANGED <<APPID, reqs>>

UVExec(r, callback) == Exec("uv", r, callback, UVRequest_exec(reqs[r], callback))
WeatherExec(r, callback) ==
  Exec("weather", r, callback, WeatherRequest_exec(reqs[r], callback))
AirExec(r, callback) == Exec("air", r, callback, AirRequest_exec(reqs[r], callback))

\* The chain of call c, by the class of its request.
Chain(c, res) ==
  CASE c.family = "uv" -> UVRequest_exec_chain(c.callback, res)
    [] c.family = "weather" -> WeatherRequest_exec_chain(c.callback, res)
    [] c.family = "air" -> AirRequest_exec_chain(c.callback, res)

Settled(p) ==
  IF p.thrown THEN [state |-> "rejected", value |-> p.val]
  ELSE [state |-> "fulfilled", value |-> p.val]

Remove(q, i) == [j \in 1..(Len(q) - 1) |-> IF j < i THEN q[j] ELSE q[j + 1]]

\* The answer handed to the callback of the exec() called last, as if the
\* module kept one callback for all its requests.
Answer_shared(i, answer) ==
  /\ i \in DOMAIN calls
  /\ LET last == calls[Len(calls)]
         link == Chain([calls[i] EXCEPT !.callback = last.callback],
                       Got(calls[i].json, answer))
     IN ret' = Op("answer", calls[i].req, <<answer>>,
                  Return([t |-> "settled", call |-> calls[i],
                          invoked |-> link.inv, promise |-> Settled(link.p)]))
  /\ calls' = Remove(calls, i)
  /\ UNCHANGED <<APPID, reqs>>

\* The transport answers the i-th GET in flight and the chain of that
\* exec() runs to its end: the calls made to the callback, and how the
\* promise exec() returned is settled.
Answer(i, answer) ==
  /\ i \in DOMAIN calls
  /\ LET link == Chain(calls[i], Got(calls[i].json, answer))
     IN ret' = Op("answer", calls[i].req, <<answer>>,
                  Return([t |-> "settled", call |-> calls[i],
                          invoked |-> link.inv, promise |-> Settled(link.p)]))
  /\ calls' = Remove(calls, i)
  /\ UNCHANGED <<APPID, reqs>>

\* defaultKey handing the new key to the requests of the module as well.
DefaultKey_rekey(fam, args) ==
  LET res == defaultKey(APPID[fam], args)
  IN /\ APPID' = [APPID EXCEPT ![fam] = res.APPID]
     /\ ret' = Op(fam \o ".defaultKey", 0, args, Return(res.out))
     /\ reqs' = [r \in DOMAIN reqs |->
                   IF reqs[r].family = fam
                     THEN [reqs[r] EXCEPT !.appid_ = res.APPID]
                     ELSE reqs[r]]
     /\ UNCHANGED calls

\* defaultKey of the module of family fam.
DefaultKey(fam, args) ==
  LET res == defaultKey(APPID[fam], args)
  IN /\ APPID' = [APPID EXCEPT ![fam] = res.APPID]
     /\ ret' = Op(fam \o ".defaultKey", 0, args, Return(res.out))
     /\ UNCHANGED <<reqs, calls>>

\* require('openweather').defaultKey(...): nothing is called when the
\* module fails to load.
OpenweatherDefaultKey(args) ==
  LET mod == openweather_require
      res == openweather_defaultKey(APPID, args)
  IN /\ APPID' = IF mod.thrown THEN APPID ELSE res.APPID
     /\ ret' = Op("openweather.defaultKey", 0, args,
                  IF mod.thrown THEN mod ELSE Return(res.out))
     /\ UNCHANGED <<reqs, calls>>

UVDefaultKey(args) == DefaultKey("uv", args)
WeatherDefaultKey(args) == DefaultKey("weather", args)
AirDefaultKey(args) == DefaultKey("air", args)

----------------------------------------------------------------------------
(* The values the operations are called with.                              *)

K == Str("K")
D == Str("D")
BadType == Str("daily")
Lats == {Num(0), Num(1)}
Lons == {Num(0), Num(2)}
Coords == {<<Num(0), Num(2)>>, <<Num(1), Num(0)>>, <<Num(1), Num(2)>>}
Dates == {DateV("2020-01-01T00:00:00.000Z")}
\* What new Date() gives when a request is constructed.
Clock == {DateV("2021-06-01T12:00:00.000Z")}
ISO == Str("2020-01-01T00:00:00Z")

\* The optional second argument of a two-argument setter.
Args1or2(A, B) == {<<a>> : a \in A} \cup {<<a, b>> : a \in A, b \in B}
Args2(A, B) == {<<a, b>> : a \in A, b \in B}

\* A configuration gives both coordinates or none.
Located(p) == p.lat = Undef <=> p.lon = Undef
Args1(A) == {<<a>> : a \in A}

\* Configuration objects: every combination of the values below; a key
\* whose value is undefined is as good as absent. And the arguments that
\* are no object.
NoObject == {Undef, Null, Str("cfg")}

UVConfigs ==
  NoObject \cup
  {Obj(p) : p \in {q \in [appid : {Undef, K},
                   type : {Undef, BadType} \cup UVTypes,
                   lat : {Undef} \cup Lats,
                   lon : {Undef} \cup Lons,
                   cnt : {Undef, Num(3)},
                   limit : {Undef, Num(4)},
                   start : {Undef, Str("1000")},
                   end : {Undef, Str("2000")}] : Located(q)}}

WeatherConfigs ==
  NoObject \cup
  {Obj(p) : p \in {q \in [appid : {Undef, K},
                   type : {Undef} \cup WeatherTypes,
                   id : {Undef, Str("4254010")},
                   zip : {Undef, Str("11111")},
                   city : {Undef, Str("Austin")},
                   country : {Undef, Str("us")},
                   lat : {Undef, Num(1)},
                   lon : {Undef, Num(0)},
                   limit : {Undef, Num(4)},
                   units : {Undef, TemperatureUnit.IMPERIAL},
                   language : {Undef, Str("es")}] : Located(q)}}

AirConfigs ==
  NoObject \cup
  {Obj(p) : p \in {q \in [appid : {Undef, K},
                   type : {Undef, BadType} \cup AirTypes,
                   lat : {Undef} \cup Lats,
                   lon : {Undef} \cup Lons,
                   datetime : {Undef, ISO} \cup Dates] : Located(q)}}

----------------------------------------------------------------------------
(* One request and its accessors and url(): the state after any           *)
(* constructor or factory call, then any sequence of calls on the request. *)

Created(op, args, this) ==
  /\ reqs = <<this>>
  /\ ret = Op(op, 1, args, Return(Ref(1)))

InitBuilder ==
  /\ APPID = [m \in Modules |-> Undef]
  /\ calls = <<>>
  /\ \/ \E c \in UVConfigs :
          Created("new UVRequest", <<c>>, UVRequest_constructor(c, APPID["uv"]))
     \/ \E c \in WeatherConfigs :
          Created("new WeatherRequest", <<c>>,
                  WeatherRequest_constructor(c, APPID["weather"]))
     \/ \E c \in AirConfigs, now \in Clock :
          Created("new AirRequest", <<c>>,
                  AirRequest_constructor(c, APPID["air"], now))
     \/ Created("uv.current", <<>>, uv_current(APPID["uv"]))
     \/ Created("uv.history", <<>>, uv_history(APPID["uv"]))
     \/ Created("uv.forecast", <<>>, uv_forecast(APPID["uv"]))
     \/ Created("weather.current", <<>>, weather_current(APPID["weather"]))
     \/ Created("weather.forecast5", <<>>, weather_forecast5(APPID["weather"]))
     \/ Created("weather.forecast16", <<>>, weather_forecast16(APPID["weather"]))
     \/ \E now \in Clock : Created("air.ozone", <<>>, air_ozone(APPID["air"], now))

NextBuilder ==
  \E r \in DOMAIN reqs :
    \/ \E a \in {<<>>} \cup Args1({K}) : UVAppid(r, a)
    \/ \E a \in {<<>>} \cup Args1({BadType} \cup UVTypes) : UVType(r, a)
    \/ \E a \in {<<>>} \cup Coords : UVCoords(r, a)
    \/ \E a \in {<<>>} \cup Args1({Num(0), Num(4)}) : UVLimit(r, a)
    \/ \E a \in {<<>>} \cup Args2({Str("1000")}, {Str("2000")}) : UVTimePeriod(r, a)
    \/ UVUrl(r)
    \/ \E a \in {<<>>} \cup Args1({K}) : WeatherAppid(r, a)
    \/ \E a \in {<<>>} \cup Args1({BadType} \cup WeatherTypes) : WeatherType(r, a)
    \/ \E a \in {<<>>} \cup Args1({Str("4254010")}) : WeatherId(r, a)
    \/ \E a \in {<<>>} \cup Coords : WeatherCoords(r, a)
    \/ \E a \in {<<>>} \cup Args1or2({Str("Austin")}, {Str("us")}) : WeatherCity(r, a)
    \/ \E a \in {<<>>} \cup Args1or2({Str("11111")}, {Str("us")}) : WeatherZip(r, a)
    \/ \E a \in {<<>>} \cup Args1({Num(0), Num(4)}) : WeatherLimit(r, a)
    \/ \E a \in {<<>>} \cup Args1({TemperatureUnit.IMPERIAL, Str("kelvin")}) :
         WeatherUnits(r, a)
    \/ \E a \in {<<>>} \cup Args1({Str("es")}) : WeatherLanguage(r, a)
    \/ WeatherUrl(r)
    \/ \E a \in {<<>>} \cup Args1({K}) : AirAppid(r, a)
    \/ \E a \in {<<>>} \cup Args1({BadType} \cup AirTypes) : AirType(r, a)
    \/ \E a \in {<<>>} \cup Coords : AirCoords(r, a)
    \/ \E a \in {<<>>} \cup Args1({ISO} \cup Dates) : AirDatetime(r, a)
    \/ AirUrl(r)

SpecBuilder == InitBuilder /\ [][NextBuilder]_vars

----------------------------------------------------------------------------
(* Requests executed: constructors, exec() with and without a callback,    *)
(* and the transport's answers, in any order.                              *)

X1 == Obj([status |-> Str("success!")])
X2 == Obj([status |-> Str("again")])

Answers ==
  {[kind |-> "ok", body |-> X1], [kind |-> "ok", body |-> X2],
   [kind |-> "badjson"], [kind |-> "http"], [kind |-> "network"]}

Callbacks == {Undef, Fn("returns"), Fn("throws")}

\* One request of each class, ready to run, a UVRequest with nothing set
\* and a WeatherRequest with units that TemperatureUnit does not have.
InitExec ==
  /\ APPID = [m \in Modules |-> Undef]
  /\ reqs = <<UVRequest_constructor(
                Obj([appid |-> K, type |-> UVRequestType.CURRENT,
                     lat |-> Num(1), lon |-> Num(2)]), APPID["uv"]),
              WeatherRequest_constructor(
                Obj([appid |-> K, type |-> WeatherRequestType.CURRENT,
                     city |-> Str("Austin")]), APPID["weather"]),
              AirRequest_constructor(
                Obj([appid |-> K, type |-> AirRequestType.O3,
                     lat |-> Num(1), lon |-> Num(2)]), APPID["air"],
                DateV("2020-01-01T00:00:00.000Z")),
              UVRequest_constructor(Undef, APPID["uv"]),
              WeatherRequest_constructor(
                Obj([appid |-> K, type |-> WeatherRequestType.CURRENT,
                     city |-> Str("Austin"), units |-> Str("kelvin")]),
                APPID["weather"])>>
  /\ calls = <<>>
  /\ ret = Op("load", 0, <<>>, Return(Undef))

Next ==
  \/ \E r \in DOMAIN reqs, cb \in Callbacks : UVExec(r, cb)
  \/ \E r \in DOMAIN reqs, cb \in Callbacks : WeatherExec(r, cb)
  \/ \E r \in DOMAIN reqs, cb \in Callbacks : AirExec(r, cb)
  \/ \E i \in DOMAIN calls, a \in Answers : Answer(i, a)
  \/ \E r \in DOMAIN reqs : UVUrl(r)
  \/ \E r \in DOMAIN reqs : WeatherUrl(r)
  \/ \E r \in DOMAIN reqs : AirUrl(r)

Spec == InitExec /\ [][Next]_vars

----------------------------------------------------------------------------
(* Two requests side by side: each module has its default key, two        *)
(* factory calls made the requests, then any accessor is called on either. *)

Made == {"uv.current", "weather.current", "air.ozone"}

\* The two factory calls: any request next to an AirRequest, and a
\* UVRequest or AirRequest next to a UVRequest.
Pairs ==
  {<<a, "air.ozone">> : a \in Made} \cup
  {<<a, "uv.current">> : a \in Made \ {"weather.current"}}

Make(op, defKeys, now) ==
  CASE op = "uv.current" -> uv_current(defKeys["uv"])
    [] op = "weather.current" -> weather_current(defKeys["weather"])
    [] op = "air.ozone" -> air_ozone(defKeys["air"], now)

InitFrame ==
  /\ APPID = [m \in Modules |-> IF m \in Families THEN D ELSE Undef]
  /\ calls = <<>>
  /\ \E p \in Pairs, now \in Dates :
       /\ reqs = <<Make(p[1], APPID, now), Make(p[2], APPID, now)>>
       /\ ret = Op(p[2], 2, <<>>, Return(Ref(2)))

NextFrame ==
  \E r \in DOMAIN reqs :
    \/ \E a \in {<<>>, <<K>>} : UVAppid(r, a)
    \/ \E a \in {<<>>, <<UVRequestType.HISTORY>>} : UVType(r, a)
    \/ \E a \in {<<>>, <<Num(1), Num(2)>>} : UVCoords(r, a)
    \/ \E a \in {<<>>, <<Num(4)>>} : UVLimit(r, a)
    \/ \E a \in {<<>>, <<Str("1000"), Str("2000")>>} : UVTimePeriod(r, a)
    \/ \E a \in {<<>>, <<K>>} : WeatherAppid(r, a)
    \/ \E a \in {<<>>, <<WeatherRequestType.FORECAST_5>>} : WeatherType(r, a)
    \/ \E a \in {<<>>, <<Str("4254010")>>} : WeatherId(r, a)
    \/ \E a \in {<<>>, <<Num(1), Num(2)>>} : WeatherCoords(r, a)
    \/ \E a \in {<<>>, <<Str("Austin"), Str("us")>>} : WeatherCity(r, a)
    \/ \E a \in {<<>>, <<Str("11111")>>} : WeatherZip(r, a)
    \/ \E a \in {<<>>, <<Num(4)>>} : WeatherLimit(r, a)
    \/ \E a \in {<<>>, <<TemperatureUnit.IMPERIAL>>} : WeatherUnits(r, a)
    \/ \E a \in {<<>>, <<Str("es")>>} : WeatherLanguage(r, a)
    \/ \E a \in {<<>>, <<K>>} : AirAppid(r, a)
    \/ \E a \in {<<>>, <<AirRequestType.NO2>>} : AirType(r, a)
    \/ \E a \in {<<>>, <<Num(1), Num(2)>>} : AirCoords(r, a)
    \/ \E a \in {<<>>} \cup Args1(Dates) : AirDatetime(r, a)

SpecFrame == InitFrame /\ [][NextFrame]_vars

----------------------------------------------------------------------------
(* The default keys: from the load of the modules, defaultKey calls,       *)
(* constructor and factory calls, and appid() and url() on the requests    *)
(* made, in any order.                                                     *)

\* defaultKey(), defaultKey(D) and defaultKey(undefined), which has an
\* argument and so unsets the default key.
KeyArgs == {<<>>, <<D>>, <<Undef>>}

\* The configurations that matter to the key: an object with an appid and
\* one without, and for UVRequest also none and no object; the factories
\* construct with no configuration in every module.
KeyConfigs(type) ==
  {Obj([appid |-> K, type |-> type]), Obj([type |-> type])}

NextKeys ==
  \/ \E a \in KeyArgs : UVDefaultKey(a)
  \/ \E a \in KeyArgs : WeatherDefaultKey(a)
  \/ \E a \in KeyArgs : AirDefaultKey(a)
  \/ \E a \in {<<>>, <<D>>} : OpenweatherDefaultKey(a)
  \/ \E c \in {Undef, Str("cfg")} \cup KeyConfigs(UVRequestType.CURRENT) :
       NewUVRequest(c)
  \/ \E c \in KeyConfigs(WeatherRequestType.CURRENT) : NewWeatherRequest(c)
  \/ \E c \in KeyConfigs(AirRequestType.O3), now \in Dates : NewAirRequest(c, now)
  \/ UVCurrent
  \/ WeatherCurrent
  \/ \E now \in Dates : AirOzone(now)
  \/ \E r \in DOMAIN reqs :
       \/ \E a \in {<<>>, <<K>>} : UVAppid(r, a)
       \/ \E a \in {<<>>, <<K>>} : WeatherAppid(r, a)
       \/ \E a \in {<<>>, <<K>>} : AirAppid(r, a)
       \/ UVUrl(r)
       \/ WeatherUrl(r)
       \/ AirUrl(r)

SpecKeys == Init /\ [][NextKeys]_vars

----------------------------------------------------------------------------
(* The names of the enumerations: getName of each type object applied to   *)
(* any value.                                                              *)

\* The members of the four type objects, null, undefined, the names as
\* strings and a number.
NameInputs ==
  UVTypes \cup WeatherTypes \cup TemperatureUnits \cup AirTypes \cup
  {Null, Undef, Num(0)} \cup
  {Str(n) : n \in {"current", "history", "forecast", "forecast5", "forecast16",
                   "metric", "standard", "imperial", "o3", "co", "so2", "no2"}}

GetName(enum, v, out) ==
  /\ ret' = Op(enum \o ".getName", 0, <<v>>, out)
  /\ UNCHANGED <<APPID, reqs, calls>>

UVGetName(v) == GetName("UVRequestType", v, UVRequestType_getName(v))
WeatherGetName(v) ==
  GetName("WeatherRequestType", v, WeatherRequestType_getName(v))
TemperatureGetName(v) == GetName("TemperatureUnit", v, TemperatureUnit_getName(v))
AirGetName(v) == GetName("AirRequestType", v, AirRequestType_getName(v))

NextNames ==
  \E v \in NameInputs :
    \/ UVGetName(v)
    \/ WeatherGetName(v)
    \/ TemperatureGetName(v)
    \/ AirGetName(v)

SpecNames == Init /\ [][NextNames]_vars

----------------------------------------------------------------------------
(* Properties of exec(), under Spec.                                       *)

\* The last step was the transport's answer to an exec() call.
Answered == ret.op = "answer"
TheCall == ret.out.val.call
TheAnswer == ret.args[1]
ThePromise == ret.out.val.promise
Invoked == ret.out.val.invoked

\* What got made of the answer: fulfilled with a response, or rejected.
Transport == Got(TheCall.json, TheAnswer)

\* url() of a request, by its class.
UrlOf(this) ==
  CASE this.family = "uv" -> UVRequest_url(this)
    [] this.family = "weather" -> WeatherRequest_url(this)
    [] this.family = "air" -> AirRequest_url(this)

\* C1: when the transport answers the GET with success and JSON body X,
\* the promise of an exec() called without a callback is fulfilled with X,
\* in every family.
C1_ResolvesToBody ==
  (Answered /\ TheAnswer.kind = "ok" /\ TheCall.passed = Undef)
    => ThePromise = [state |-> "fulfilled", value |-> TheAnswer.body]

\* C2: when the transport fails (network error, non-2xx status, parse
\* failure), the promise of an exec() called without a callback is
\* rejected with the underlying error, in every family.
C2_RejectsWithError ==
  (Answered /\ Transport.thrown /\ TheCall.passed = Undef)
    => ThePromise = [state |-> "rejected", value |-> Transport.val]

\* C3: exec(callback) is error-first in every family: on success the
\* callback is called as callback(null, data) with the parsed body, on
\* failure as callback(err) with the underlying error first.
C3_ErrorFirst ==
  (Answered /\ TheCall.passed # Undef)
    => /\ TheAnswer.kind = "ok" =>
            /\ Len(Invoked) >= 1
            /\ Invoked[1] = <<Null, TheAnswer.body>>
       /\ Transport.thrown =>
            /\ Len(Invoked) >= 1
            /\ Invoked[1][1] = Transport.val

\* C4: the callback of an exec(callback) call that issued a GET is called
\* exactly once in total, whatever the callback does.
C4_CallbackOnce ==
  (Answered /\ TheCall.passed # Undef) => Len(Invoked) = 1

\* C5: every exec() call in which url() returns issues exactly one GET, to
\* the URL url() returns at that moment, behind the GETs already in flight
\* (an exec() in which url() throws issues none); the answer to a GET,
\* failure included, takes that GET out of flight and issues no other; so
\* a repeated exec() on an unchanged request issues a fresh GET.
C5_OneGetPerExec ==
  [][/\ (ret'.op = "exec" /\ ~ret'.out.thrown) =>
          /\ Len(calls') = Len(calls) + 1
          /\ SubSeq(calls', 1, Len(calls)) = calls
          /\ calls'[Len(calls')].req = ret'.req
          /\ calls'[Len(calls')].url = UrlOf(reqs[ret'.req]).val
     /\ (ret'.op = "exec" /\ ret'.out.thrown) =>
          /\ calls' = calls
          /\ UrlOf(reqs[ret'.req]).thrown
     /\ ret'.op = "answer" =>
          /\ Len(calls') = Len(calls) - 1
          /\ \A j \in DOMAIN calls' : \E i \in DOMAIN calls : calls'[j] = calls[i]
    ]_vars

\* Two GETs of one unchanged request are in flight, each to url().
C5_Witness ==
  /\ Len(calls) = 2
  /\ calls[1].req = calls[2].req
  /\ calls[1].url = calls[2].url
  /\ calls[2].url = UrlOf(reqs[calls[2].req]).val
  /\ ret.op = "exec"

----------------------------------------------------------------------------
(* Properties of url(), under SpecBuilder.                                 *)

\* The last step was a url() call that returned; TheUrl is what it
\* returned and Req the request it was called on.
Req == reqs[ret.req]
UrlReturned == ret.op = "url" /\ ~ret.out.thrown
TheUrl == ret.out.val

\* The endpoint table of the provider.
EndpointPath(type) ==
  CASE type = WeatherRequestType.CURRENT -> "/data/2.5/weather"
    [] type = WeatherRequestType.FORECAST_5 -> "/data/2.5/forecast"
    [] type = WeatherRequestType.FORECAST_16 -> "/data/2.5/forecast/daily"
    [] type = UVRequestType.CURRENT -> "/data/2.5/uvi"
    [] type = UVRequestType.FORECAST -> "/data/2.5/uvi/forecast"
    [] type = UVRequestType.HISTORY -> "/data/2.5/uvi/history"
    [] OTHER -> "none"

\* C6: url() of a weather or UV request has host api.openweathermap.org
\* and the path the endpoint table gives for the request's type, whatever
\* else is set on the request; and it returns for every weather or UV
\* request with a type of its family and in-range units.
C6_HostAndPath ==
  /\ (UrlReturned /\ Req.family \in {"uv", "weather"}) =>
        /\ TheUrl.host = HOST
        /\ TheUrl.path = EndpointPath(Req.type_)
        /\ Req.type_ \in UVTypes \cup WeatherTypes
  /\ (ret.op = "url" /\ Req.family = "uv" /\ Req.type_ \in UVTypes) =>
        ~ret.out.thrown
  /\ (ret.op = "url" /\ Req.family = "weather" /\ Req.type_ \in WeatherTypes
        /\ Req.units_ \in {Undef} \cup TemperatureUnits) =>
        ~ret.out.thrown

\* url() returned for a 16 day forecast with a city, a limit, units and a
\* language set.
C6_Witness ==
  /\ UrlReturned
  /\ Req.family = "weather"
  /\ Req.type_ = WeatherRequestType.FORECAST_16
  /\ Truthy(Req.city_) /\ Truthy(Req.limit_) /\ Truthy(Req.units_)
  /\ Truthy(Req.language_)
  /\ Len(TheUrl.query) >= 6

\* C7: url() of an AirRequest of type e with key K, coords (lat, lon) and
\* datetime d given as an ISO-8601 string has host api.openweathermap.org,
\* path /pollution/v1/<getName(e)>/<lat>,<lon>/<d>.json and the query set
\* {appid: K}.
C7_AirUrl ==
  (ret.op = "url" /\ Req.family = "air" /\ Req.type_ \in AirTypes
     /\ Req.appid_.t = "string" /\ Req.lat_.t = "number" /\ Req.lon_.t = "number"
     /\ Req.datetime_.t = "string")
    => /\ ~ret.out.thrown
       /\ TheUrl.host = HOST
       /\ TheUrl.path = "/pollution/v1/" \o AirRequestType_getName(Req.type_).val.s
                          \o "/" \o JSString(Req.lat_) \o "," \o JSString(Req.lon_)
                          \o "/" \o Req.datetime_.s \o ".json"
       /\ QuerySet(TheUrl.query) = {<<"appid", Req.appid_.s>>}

\* The field of the request behind a query key, for the keys a parameter
\* of the builder feeds; the API key and mode=json are always sent.
Unset(this, key) ==
  CASE key \in {"lat"} -> this.lat_ = Undef
    [] key \in {"lon"} -> this.lon_ = Undef
    [] key \in {"cnt", "limit"} ->
         IF this.family = "uv"
           THEN this.count_ = Undef /\ this.cnt_ = Undef
           ELSE this.limit_ = Undef
    [] key = "start" -> this.start_ = Undef
    [] key = "end" -> this.end_ = Undef
    [] key = "id" -> this.id_ = Undef
    [] key = "zip" -> this.zip_ = Undef
    [] key = "q" -> this.city_ = Undef
    [] key = "lang" -> this.language_ = Undef
    [] key = "units" -> this.units_ = Undef
    [] OTHER -> FALSE

\* C8: a parameter that has not been set on the builder never appears as
\* a query key of url(), in every family.
C8_UnsetAbsent ==
  UrlReturned =>
    \A i \in 1..Len(TheUrl.query) : ~Unset(Req, TheUrl.query[i][1])

\* The day-count parameter, under the name the code or the tests give it.
DayCount == {"cnt", "limit"}
HasDayCount(q) == \E k \in DayCount : HasKey(q, k)

\* C9: in UVRequest.url() the day count is present iff the type is
\* FORECAST and then is the value given to limit(n); start and end are
\* present iff the type is HISTORY and then are the values given to
\* timePeriod(start, end).
C9_UVTypeScoped ==
  (UrlReturned /\ Req.family = "uv") =>
    /\ HasDayCount(TheUrl.query) <=> Req.type_ = UVRequestType.FORECAST
    /\ (Req.type_ = UVRequestType.FORECAST /\ Req.count_ # Undef) =>
         \E k \in DayCount : <<k, JSString(Req.count_)>> \in QuerySet(TheUrl.query)
    /\ HasKey(TheUrl.query, "start") <=> Req.type_ = UVRequestType.HISTORY
    /\ HasKey(TheUrl.query, "end") <=> Req.type_ = UVRequestType.HISTORY
    /\ Req.type_ = UVRequestType.HISTORY =>
         /\ <<"start", JSString(Req.start_)>> \in QuerySet(TheUrl.query)
         /\ <<"end", JSString(Req.end_)>> \in QuerySet(TheUrl.query)

\* A UV HISTORY request on which a key, coords, limit(n) and
\* timePeriod(s, e) were set.
HistoryAllSet(this) ==
  /\ this.family = "uv"
  /\ this.type_ = UVRequestType.HISTORY
  /\ this.appid_.t = "string"
  /\ this.lat_.t = "number" /\ this.lon_.t = "number"
  /\ this.count_.t = "number"
  /\ this.start_.t = "string" /\ this.end_.t = "string"

HistoryQuery(this) ==
  {<<"APPID", this.appid_.s>>, <<"lat", JSString(this.lat_)>>,
   <<"lon", JSString(this.lon_)>>, <<"start", this.start_.s>>,
   <<"end", this.end_.s>>}

Once(q, k, v) == Count(q, k) = 1 /\ <<k, v>> \in QuerySet(q)

\* url() was called on a WeatherRequest that has a type of its family and,
\* if any, units of TemperatureUnit.
TypedWeatherUrl ==
  /\ ret.op = "url"
  /\ Req.family = "weather"
  /\ Req.type_ \in WeatherTypes
  /\ Req.units_ \in {Undef} \cup TemperatureUnits

\* C11: url() of a typed WeatherRequest returns a query with mode=json and
\* the APPID parameter once each and, once each with its string value,
\* every parameter set on the request (id, limit, language, units, lat,
\* lon; zip and city under their keys), the value 0 of lat, lon or limit
\* included.
C11_WeatherQueryComplete ==
  TypedWeatherUrl =>
    /\ ~ret.out.thrown
    /\ Once(TheUrl.query, "mode", "json")
    /\ Once(TheUrl.query, "APPID", JSString(Req.appid_))
    /\ Req.id_ # Undef => Once(TheUrl.query, "id", JSString(Req.id_))
    /\ Req.limit_ # Undef =>
         \E k \in DayCount :
           /\ Once(TheUrl.query, k, JSString(Req.limit_))
           /\ \A j \in DayCount \ {k} : ~HasKey(TheUrl.query, j)
    /\ Req.language_ # Undef => Once(TheUrl.query, "lang", JSString(Req.language_))
    /\ Req.units_ # Undef =>
         Once(TheUrl.query, "units", TemperatureUnit_getName(Req.units_).val.s)
    /\ Req.lat_ # Undef => Once(TheUrl.query, "lat", JSString(Req.lat_))
    /\ Req.lon_ # Undef => Once(TheUrl.query, "lon", JSString(Req.lon_))
    /\ Req.zip_ # Undef => Count(TheUrl.query, "zip") = 1
    /\ Req.city_ # Undef => Count(TheUrl.query, "q") = 1

\* value, or value,country when the request has a country code.
WithCountry(this, value) ==
  IF this.country_ = Undef THEN JSString(value)
  ELSE JSString(value) \o "," \o JSString(this.country_)

\* C12: WeatherRequest.url() gives a zip code as 'zip' and a city as
\* 'city' when the request has no country code, and as 'zip,country' and
\* 'city,country' when it has one.
C12_CountrySuffix ==
  (TypedWeatherUrl /\ UrlReturned) =>
    /\ Req.zip_ # Undef =>
         <<"zip", WithCountry(Req, Req.zip_)>> \in QuerySet(TheUrl.query)
    /\ Req.city_ # Undef =>
         <<"q", WithCountry(Req, Req.city_)>> \in QuerySet(TheUrl.query)

\* The accessors with a getter that reads back what the setter stored.
Scalars == {"appid", "type", "id", "limit", "units", "language"}

\* What a getter is to return once the setter was called with args: the
\* value for a scalar, an object of the parts for a field of two parts.
\* city(name) and zip(code) name no country: what becomes of the country
\* the request has is the matter of C25.
SetValue(op, args, got) ==
  CASE op \in Scalars -> got = Arg(args, 1)
    [] op = "coords" -> got = Obj([lat |-> Arg(args, 1), lon |-> Arg(args, 2)])
    [] op = "timePeriod" -> got = Obj([start |-> Arg(args, 1), end |-> Arg(args, 2)])
    [] op = "city" ->
         /\ got.t = "object"
         /\ DOMAIN got.props = {"city", "country"}
         /\ got.props.city = Arg(args, 1)
         /\ Len(args) > 1 => got.props.country = Arg(args, 2)
    [] op = "zip" ->
         /\ got.t = "object"
         /\ DOMAIN got.props = {"zip", "country"}
         /\ got.props.zip = Arg(args, 1)
         /\ Len(args) > 1 => got.props.country = Arg(args, 2)
    [] OTHER -> FALSE

\* A setter call on the request, then the getter of the same accessor.
SetThenGet ==
  /\ ret.op = ret'.op
  /\ ret.req = ret'.req
  /\ ret.args # <<>>
  /\ ret'.args = <<>>

\* C13: an accessor of WeatherRequest or UVRequest, or appid, type or
\* coords of AirRequest, called with values and then with no argument
\* returns the values just set, whatever the type of the request, and
\* neither call throws. Country codes are non-empty strings.
C13_RoundTrip ==
  [][(SetThenGet /\ ret.op \in Scalars \cup {"coords", "timePeriod", "city", "zip"})
       => /\ ~ret.out.thrown
          /\ ret.out.val = Ref(ret.req)
          /\ ~ret'.out.thrown
          /\ SetValue(ret.op, ret.args, ret'.out.val)]_vars

\* limit(4) then limit() on a UVRequest that was constructed with cnt 3.
C13_Witness ==
  /\ ret.op = "limit"
  /\ ret.args = <<>>
  /\ ret.out.val = Num(4)
  /\ Req.family = "uv"
  /\ Req.cnt_ = Num(3)

\* C14: datetime(t) and then datetime() on an AirRequest returns t.
C14_DatetimeRoundTrip ==
  [][(SetThenGet /\ ret.op = "datetime")
       => /\ ~ret'.out.thrown
          /\ ret'.out.val = ret.args[1]]_vars

----------------------------------------------------------------------------
(* Properties of the accessors next to another request, under SpecFrame.   *)

\* The fields an accessor of a request names.
Named(this, op) ==
  CASE op = "coords" -> {"lat_", "lon_"}
    [] op = "city" -> {"city_", "country_"}
    [] op = "zip" -> {"zip_", "country_"}
    [] op = "timePeriod" -> {"start_", "end_"}
    [] op = "limit" /\ this.family = "uv" -> {"count_"}
    [] OTHER -> {op \o "_"}

Accessors == Scalars \cup {"coords", "timePeriod", "city", "zip", "datetime"}

\* C15: an accessor call with no argument changes no field of any request
\* and no default key; an accessor call with arguments returns the
\* instance it was called on and changes only the fields the accessor
\* names, of that request: every other field, every other request and
\* every default key stay as they were.
C15_Frame ==
  [][ret'.op \in Accessors =>
       /\ APPID' = APPID
       /\ DOMAIN reqs' = DOMAIN reqs
       /\ \A r \in DOMAIN reqs : DOMAIN reqs'[r] = DOMAIN reqs[r]
       /\ ret'.args = <<>> => reqs' = reqs
       /\ ret'.args # <<>> =>
            /\ ret'.out = Return(Ref(ret'.req))
            /\ \A r \in DOMAIN reqs \ {ret'.req} : reqs'[r] = reqs[r]
            /\ \A f \in DOMAIN reqs[ret'.req] \ Named(reqs[ret'.req], ret'.op) :
                 reqs'[ret'.req][f] = reqs[ret'.req][f]]_vars

\* zip('11111') was called on a request with a city and a country, next to
\* a request with a key of its own.
C15_Witness ==
  /\ ret.op = "zip"
  /\ ret.args # <<>>
  /\ ret.req = 1
  /\ reqs[1].city_ = Str("Austin")
  /\ reqs[1].country_ = Str("us")
  /\ reqs[1].zip_ = Str("11111")
  /\ reqs[2].appid_ = K

----------------------------------------------------------------------------
(* Properties of the constructors, under SpecBuilder.                      *)

Constructors == {"new UVRequest", "new WeatherRequest", "new AirRequest"}

\* What a getter is to return on a request constructed from the object
\* config: the value of the key, or an object of the values of the keys.
ConfigValue(op, config, got) ==
  CASE op \in {"appid", "datetime"} ->
         Get(config, op) # Undef => got = Get(config, op)
    [] op \in Scalars -> got = Get(config, op)
    [] op = "coords" ->
         got = Obj([lat |-> Get(config, "lat"), lon |-> Get(config, "lon")])
    [] op = "timePeriod" ->
         got = Obj([start |-> Get(config, "start"), end |-> Get(config, "end")])
    [] op = "city" ->
         got = Obj([city |-> Get(config, "city"), country |-> Get(config, "country")])
    [] op = "zip" ->
         got = Obj([zip |-> Get(config, "zip"), country |-> Get(config, "country")])
    [] OTHER -> FALSE

\* C16: on a request constructed from a configuration object, each
\* accessor called with no argument returns the value the object has under
\* the matching key (limit under 'limit', the time period under 'start'
\* and 'end', datetime under 'datetime').
C16_ConfigCopied ==
  [][(/\ ret.op \in Constructors
      /\ ret.args[1].t = "object"
      /\ ret'.op \in Accessors
      /\ ret'.args = <<>>)
       => /\ ~ret'.out.thrown
          /\ ConfigValue(ret'.op, ret.args[1], ret'.out.val)]_vars

----------------------------------------------------------------------------
(* Properties of the default keys, under SpecKeys.                         *)

\* The module of a constructor or factory, "none" for any other operation.
FamilyOf(op) ==
  CASE op \in {"new UVRequest", "uv.current", "uv.history", "uv.forecast"} -> "uv"
    [] op \in {"new WeatherRequest", "weather.current", "weather.forecast5",
               "weather.forecast16"} -> "weather"
    [] op \in {"new AirRequest", "air.ozone", "air.carbonMonoxide",
               "air.sulfurDioxide", "air.nitrogenDioxide"} -> "air"
    [] OTHER -> "none"

\* The appid of the configuration a request was made from, if it has one.
GivenKey(args) ==
  IF Len(args) > 0 /\ args[1].t = "object" THEN Get(args[1], "appid") ELSE Undef

\* C17: appid() on a request just constructed returns the appid of the
\* config when the config is an object that has one, and otherwise (no
\* config, no object, no appid in it) what defaultKey() of the family
\* returns at that moment; and appid() after appid(k) returns k.
C17_DefaultAtConstruction ==
  [][/\ (/\ FamilyOf(ret.op) # "none"
         /\ ret'.op = "appid" /\ ret'.args = <<>> /\ ret'.req = ret.req)
        => ret'.out =
             Return(IF GivenKey(ret.args) # Undef THEN GivenKey(ret.args)
                    ELSE defaultKey(APPID[FamilyOf(ret.op)], <<>>).out)
     /\ (/\ ret.op = "appid" /\ ret.args # <<>>
         /\ ret'.op = "appid" /\ ret'.args = <<>> /\ ret'.req = ret.req)
        => ret'.out = Return(ret.args[1])]_vars

\* appid() returned the default key D of the uv module on a request made
\* without a key of its own.
C17_Witness ==
  /\ ret.op = "appid"
  /\ ret.args = <<>>
  /\ ret.out.val = D
  /\ APPID["uv"] = D
  /\ reqs[ret.req].family = "uv"
  /\ reqs[ret.req].appid_ = D
  /\ Len(reqs) = 2

\* What appid() of a request returns.
AppidOf(this) ==
  CASE this.family = "uv" -> UVRequest_appid(this, <<>>).out
    [] this.family = "weather" -> WeatherRequest_appid(this, <<>>).out
    [] this.family = "air" -> AirRequest_appid(this, <<>>).out

DefaultKeyOps == {f \o ".defaultKey" : f \in Families}

\* C18: a defaultKey call changes no request that exists: appid() and
\* url() of each return after the call what they returned before it.
C18_DefaultLeavesRequests ==
  [][ret'.op \in DefaultKeyOps =>
       /\ DOMAIN reqs' = DOMAIN reqs
       /\ \A r \in DOMAIN reqs :
            /\ AppidOf(reqs'[r]) = AppidOf(reqs[r])
            /\ UrlOf(reqs'[r]) = UrlOf(reqs[r])]_vars

\* The default key of the uv module was unset again while a UVRequest
\* made under D exists.
C18_Witness ==
  /\ ret.op = "uv.defaultKey"
  /\ ret.args = <<Undef>>
  /\ APPID["uv"] = Undef
  /\ \E r \in DOMAIN reqs : reqs[r].family = "uv" /\ reqs[r].appid_ = D

\* The API-key parameter of a URL: APPID, or appid for the air module.
KeyParam(this) == IF this.family = "air" THEN "appid" ELSE "APPID"

\* C19 as the specification states it: url() of a request that has no key
\* of its own carries the default key its module has when url() runs.
C19_DefaultAtSerialization ==
  (UrlReturned /\ Req.appid_ = Undef) =>
    Once(TheUrl.query, KeyParam(Req), JSString(APPID[Req.family]))

\* C19 amended: url() carries the key the request holds, which is the
\* config's appid, else the default key at construction, else the last
\* appid(k); the default key of the module when url() runs plays no part,
\* and a request that holds no key carries the text 'undefined'.
C19_OwnKeyAtSerialization ==
  UrlReturned => Once(TheUrl.query, KeyParam(Req), JSString(Req.appid_))

\* url() returned for a request made before its module had a default key,
\* with no appid() call since, while the module has the default key D.
C19_Witness ==
  /\ UrlReturned
  /\ Req.appid_ = Undef
  /\ APPID[Req.family] = D
  /\ <<KeyParam(Req), "undefined">> \in QuerySet(TheUrl.query)

\* C20: defaultKey(v) of a module makes v its default key and returns v;
\* defaultKey() returns the default key and changes nothing; neither
\* changes the default key of another module.
C20_DefaultKeyContract ==
  [][\A f \in Families :
       ret'.op = f \o ".defaultKey" =>
         /\ ret'.args # <<>> =>
              /\ APPID'[f] = ret'.args[1]
              /\ ret'.out = Return(ret'.args[1])
         /\ ret'.args = <<>> =>
              /\ APPID' = APPID
              /\ ret'.out = Return(APPID[f])
         /\ \A g \in Families \ {f} : APPID'[g] = APPID[g]]_vars

\* uv.defaultKey(undefined) was called while the weather module has D and
\* the air module has no default key.
C20_Witness ==
  /\ ret.op = "uv.defaultKey"
  /\ ret.args = <<Undef>>
  /\ ret.out.val = Undef
  /\ APPID["uv"] = Undef
  /\ APPID["weather"] = D
  /\ APPID["air"] = Undef
  /\ \E r \in DOMAIN reqs : reqs[r].family = "uv" /\ reqs[r].appid_ = D

\* C21: after defaultKey(k) of the wrapper module, defaultKey() of uv, air
\* and weather each return k, so that a request constructed afterwards
\* without a key of its own has k.
C21_WrapperSetsAll ==
  (ret.op = "openweather.defaultKey" /\ ret.args # <<>>) =>
    /\ ret.out = Return(ret.args[1])
    /\ \A f \in Families : defaultKey(APPID[f], <<>>).out = ret.args[1]

----------------------------------------------------------------------------
(* Properties of getName, under SpecNames.                                 *)

\* The members of a type object, by its name.
MembersOf(enum) ==
  CASE enum = "UVRequestType" -> UVTypes
    [] enum = "WeatherRequestType" -> WeatherTypes
    [] enum = "TemperatureUnit" -> TemperatureUnits
    [] enum = "AirRequestType" -> AirTypes

Enums == {"UVRequestType", "WeatherRequestType", "TemperatureUnit", "AirRequestType"}

\* C22: getName of a type object applied to null or to any value that is
\* no member of it throws an instance of InvalidRequestType: it returns
\* no string and throws no other error.
C22_GetNameRejects ==
  \A e \in Enums :
    (ret.op = e \o ".getName" /\ ret.args[1] \notin MembersOf(e)) =>
      /\ ret.out.thrown
      /\ ret.out.val.class = "InvalidRequestType"

\* The name the tests give for each member.
Documented ==
  [m \in UVTypes \cup WeatherTypes \cup TemperatureUnits \cup AirTypes |->
     CASE m = UVRequestType.CURRENT -> "current"
       [] m = UVRequestType.HISTORY -> "history"
       [] m = UVRequestType.FORECAST -> "forecast"
       [] m = WeatherRequestType.CURRENT -> "current"
       [] m = WeatherRequestType.FORECAST_5 -> "forecast5"
       [] m = WeatherRequestType.FORECAST_16 -> "forecast16"
       [] m = TemperatureUnit.METRIC -> "metric"
       [] m = TemperatureUnit.STANDARD -> "standard"
       [] m = TemperatureUnit.IMPERIAL -> "imperial"
       [] m = AirRequestType.O3 -> "o3"
       [] m = AirRequestType.CO -> "co"
       [] m = AirRequestType.SO2 -> "so2"
       [] m = AirRequestType.NO2 -> "no2"]

\* C23: getName of a type object applied to one of its members returns the
\* lowercase name the tests give for it.
C23_GetNameNames ==
  \A e \in Enums :
    (ret.op = e \o ".getName" /\ ret.args[1] \in MembersOf(e)) =>
      ret.out = Return(Str(Documented[ret.args[1]]))

----------------------------------------------------------------------------
(* The locations of a WeatherRequest, under SpecBuilder.                   *)

\* The setters of a location and the query keys of each.
LocationKeys ==
  [id |-> {"id"}, city |-> {"q"}, zip |-> {"zip"}, coords |-> {"lat", "lon"}]

C25_CountryKept ==
  [][(/\ ret'.op \in {"city", "zip"}
      /\ Len(ret'.args) = 1
      /\ reqs[ret'.req].family = "weather"
      /\ reqs[ret'.req].country_ # Undef)
     => reqs'[ret'.req].country_ = reqs[ret'.req].country_]_vars

----------------------------------------------------------------------------
(* Units that TemperatureUnit does not have, under Spec.                   *)

\* The request of the step's call holds units outside TemperatureUnit: a
\* non-empty string or another value url() does not take for unset.
BadUnits(this) ==
  /\ this.family = "weather"
  /\ Truthy(this.units_)
  /\ this.units_ \notin TemperatureUnits

----------------------------------------------------------------------------
(* url() reads and does not write, under SpecBuilder.                      *)

\* C27: a url() step changes no field of any request, no default key and
\* no call in flight, and what it returns or throws is what url() of the
\* request gives in the state the step leaves, so that a second url()
\* with no setter call between returns the same; also for an AirRequest
\* whose datetime is the Date of its construction.
C27_UrlPure ==
  [][ret'.op = "url" =>
       /\ reqs' = reqs
       /\ APPID' = APPID
       /\ calls' = calls
       /\ ret'.out = UrlOf(reqs'[ret'.req])
       /\ (ret.op = "url" /\ ret.req = ret'.req) => ret'.out = ret.out]_vars

\* url() returned for an AirRequest that holds the Date of its
\* construction, which is in the URL.
C27_Witness ==
  /\ UrlReturned
  /\ Req.family = "air"
  /\ Req.datetime_ \in Clock
  /\ Req.type_ \in AirTypes
  /\ \E b \in {"o3", "co", "so2", "no2"} :
       TheUrl.path = AirBase \o b \o "/" \o JSString(Req.lat_) \o "," \o
                     JSString(Req.lon_) \o "/" \o Req.datetime_.iso \o ".json"

----------------------------------------------------------------------------
(* Requests in flight together, under Spec.                                *)

\* What a chain can hand on of an answer: null, undefined, the body or the
\* error the transport made of this answer, and the error of a callback.
OwnValues(call, answer) ==
  LET got == Got(call.json, answer)
  IN {Null, Undef, Err("Error", "callback failed")} \cup
     (IF got.thrown THEN {got.val} ELSE {got.val.body})

\* C28: when the transport answers one of several GETs in flight, in any
\* order, the callback calls and the promise of that exec() are those its
\* own chain makes of its own answer, every value delivered comes from
\* that answer, and the other GETs, the requests and the default keys
\* stay as they were.
C28_OwnOutcome ==
  [][ret'.op = "answer" =>
       \E i \in DOMAIN calls :
         LET call == calls[i]
             answer == ret'.args[1]
             link == Chain(call, Got(call.json, answer))
             settled == ret'.out.val
         IN /\ settled.call = call
            /\ ret'.req = call.req
            /\ calls' = Remove(calls, i)
            /\ settled.invoked = link.inv
            /\ settled.promise = Settled(link.p)
            /\ \A n \in DOMAIN settled.invoked :
                 \A a \in DOMAIN settled.invoked[n] :
                   settled.invoked[n][a] \in OwnValues(call, answer)
            /\ settled.promise.value \in OwnValues(call, answer)
            /\ reqs' = reqs
            /\ APPID' = APPID]_vars

\* exec(callback) of one request was answered with its body while the GET
\* of another request, called with another callback, is still in flight.
C28_Witness ==
  /\ Answered
  /\ TheAnswer.kind = "ok"
  /\ Len(Invoked) >= 1
  /\ Len(calls) >= 1
  /\ calls[1].req # TheCall.req
  /\ calls[1].passed # TheCall.passed
  /\ TheCall.passed # Undef

----------------------------------------------------------------------------
(* Requests without a type of their family, under SpecBuilder.             *)

\* The members of the enumeration of a request's family.
TypesOf(this) ==
  CASE this.family = "uv" -> UVTypes
    [] this.family = "weather" -> WeatherTypes
    [] this.family = "air" -> AirTypes

\* C29: url() on a request whose type is unset or no member of the
\* enumeration of its family throws and returns no URL, in every family.
C29_UntypedThrows ==
  (ret.op = "url" /\ Req.type_ \notin TypesOf(Req)) => ret.out.thrown

----------------------------------------------------------------------------
(* The country code of a WeatherRequest, under SpecBuilder.                *)

\* What city() and zip() without arguments report as the country.
CityCountry(this) == WeatherRequest_city(this, <<>>).out.props.country
ZipCountry(this) == WeatherRequest_zip(this, <<>>).out.props.country

\* After city(name, c) or zip(code, c): both getters report c, and a url
\* that returns carries c behind the city and behind the zip code the
\* request holds.
SharedCountry(this, c) ==
  /\ CityCountry(this) = c
  /\ ZipCountry(this) = c
  /\ ~WeatherRequest_url(this).thrown =>
       LET q == WeatherRequest_url(this).val.query
       IN /\ this.city_ # Undef =>
               <<"q", JSString(this.city_) \o "," \o JSString(c)>> \in QuerySet(q)
          /\ this.zip_ # Undef =>
               <<"zip", JSString(this.zip_) \o "," \o JSString(c)>> \in QuerySet(q)

\* C30: in every state of a WeatherRequest city().country equals
\* zip().country, and city(name, c) or zip(code, c) with a country code c
\* makes c the country both getters report and the one url() appends to
\* the q and to the zip parameter.
C30_OneCountry ==
  /\ [](\A r \in DOMAIN reqs :
          reqs[r].family = "weather" => CityCountry(reqs[r]) = ZipCountry(reqs[r]))
  /\ [][(/\ ret'.op \in {"city", "zip"}
         /\ Len(ret'.args) = 2
         /\ reqs[ret'.req].family = "weather")
        => SharedCountry(reqs'[ret'.req], ret'.args[2])]_vars

\* zip(code, c) on a typed request that holds a city and had no country:
\* city() reports c and the url carries 'city,c'.
C30_Witness ==
  /\ ret.op = "zip"
  /\ Len(ret.args) = 2
  /\ Req.family = "weather"
  /\ Req.city_ # Undef
  /\ Req.type_ \in WeatherTypes
  /\ CityCountry(Req) = ret.args[2]
  /\ ~WeatherRequest_url(Req).thrown
  /\ <<"q", JSString(Req.city_) \o "," \o JSString(ret.args[2])>>
       \in QuerySet(WeatherRequest_url(Req).val.query)

====
